---- MODULE Spec2Model ----
(***************************************************************************)
(* A model of graphene_django_filter/connection_field.py:                  *)
(* AdvancedDjangoFilterConnectionField, its constructor, its properties    *)
(* and the classmethod resolve_queryset.                                   *)
(*                                                                         *)
(* Python strings are sequences of one-character strings, so that          *)
(* to_snake_case, str.lstrip, str.replace and the iteration of a string    *)
(* are computed as Python computes them.  An Optional value is a set with  *)
(* at most one element: None is {} and a value x is {x}.                   *)
(***************************************************************************)
EXTENDS Integers, Sequences, FiniteSets, TLC

\* field    the connection field, once constructed (an Optional)
\* ctor     the arguments and the result of the constructor call (an Optional)
\* warnings the warnings the constructor emitted, in order
\* ret      the value each property returned when it was last read
\* builds   how often get_filterset_class and FilterArgumentsFactory have run
\* call     the arguments of the latest resolve_queryset call (an Optional)
\* outcome  what that call returned or raised (an Optional)
\* history  every <<call, outcome>> so far
VARIABLES field, ctor, warnings, ret, builds, call, outcome, history

vars == <<field, ctor, warnings, ret, builds, call, outcome, history>>

\* ------------------------------------------------------------------------
\* Bounds of the model.
\* ------------------------------------------------------------------------

\* The longest orderBy list that is drawn as an input.
MaxOrderLen == 2

\* A cap on the build counters (the code builds each value once).
MaxBuilds == 3

\* ------------------------------------------------------------------------
\* Optional values and Python truthiness.
\* ------------------------------------------------------------------------

None == {}

Some(x) == {x}

The(o) == CHOOSE x \in o : TRUE

\* ------------------------------------------------------------------------
\* Strings.
\* ------------------------------------------------------------------------

UpperChars == <<"A", "B", "C", "D", "E", "F", "G", "H", "I", "J", "K", "L", "M",
                "N", "O", "P", "Q", "R", "S", "T", "U", "V", "W", "X", "Y", "Z">>

LowerChars == <<"a", "b", "c", "d", "e", "f", "g", "h", "i", "j", "k", "l", "m",
                "n", "o", "p", "q", "r", "s", "t", "u", "v", "w", "x", "y", "z">>

DigitChars == {"0", "1", "2", "3", "4", "5", "6", "7", "8", "9"}

IsUpper(c) == \E i \in 1..26 : UpperChars[i] = c

IsLower(c) == \E i \in 1..26 : LowerChars[i] = c

\* str.lower() on one character.
LowerChar(c) ==
    IF IsUpper(c) THEN LowerChars[CHOOSE i \in 1..26 : UpperChars[i] = c] ELSE c

\* str.lower().
lower(s) == [i \in 1..Len(s) |-> LowerChar(s[i])]

\* The first index at or after j of s that holds no lower-case letter:
\* the end of the greedy [a-z]+ of the first pattern of to_snake_case.
RECURSIVE LowerRunEnd(_, _)
LowerRunEnd(s, j) ==
    IF j <= Len(s) /\ IsLower(s[j]) THEN LowerRunEnd(s, j + 1) ELSE j

\* re.sub("(.)([A-Z][a-z]+)", r"\1_\2", s), scanning from index i.
RECURSIVE SubWord(_, _)
SubWord(s, i) ==
    IF i > Len(s) THEN <<>>
    ELSE IF i + 2 <= Len(s) /\ IsUpper(s[i + 1]) /\ IsLower(s[i + 2])
         THEN LET e == LowerRunEnd(s, i + 2)
              IN  <<s[i], "_">> \o SubSeq(s, i + 1, e - 1) \o SubWord(s, e)
         ELSE <<s[i]>> \o SubWord(s, i + 1)

\* re.sub("([a-z0-9])([A-Z])", r"\1_\2", s), scanning from index i.
RECURSIVE SubHump(_, _)
SubHump(s, i) ==
    IF i > Len(s) THEN <<>>
    ELSE IF /\ i + 1 <= Len(s)
            /\ (IsLower(s[i]) \/ s[i] \in DigitChars)
            /\ IsUpper(s[i + 1])
         THEN <<s[i], "_", s[i + 1]>> \o SubHump(s, i + 2)
         ELSE <<s[i]>> \o SubHump(s, i + 1)

\* graphene.utils.str_converters.to_snake_case.
to_snake_case(name) == lower(SubHump(SubWord(name, 1), 1))

\* str.lstrip(c): every leading c is removed.
RECURSIVE lstrip(_, _)
lstrip(s, c) ==
    IF Len(s) > 0 /\ s[1] = c THEN lstrip(Tail(s), c) ELSE s

\* str.replace(old, ""), scanning from index i; old is not empty.
RECURSIVE RemoveAll(_, _, _)
RemoveAll(s, old, i) ==
    IF i > Len(s) THEN <<>>
    ELSE IF i + Len(old) - 1 <= Len(s) /\ SubSeq(s, i, i + Len(old) - 1) = old
         THEN RemoveAll(s, old, i + Len(old))
         ELSE <<s[i]>> \o RemoveAll(s, old, i + 1)

\* ------------------------------------------------------------------------
\* Inputs of resolve_queryset.
\* ------------------------------------------------------------------------

\* GraphQL field names offered as orderBy entries.
FieldNames ==
    { <<"n", "a", "m", "e">>,
      <<"c", "r", "e", "a", "t", "e", "d", "A", "t">>,
      <<"u", "s", "e", "r", "I", "D">>,
      <<"N", "a", "m", "e">> }

\* A field name, optionally prefixed with "-" for descending order.
OrderEntries == FieldNames \cup { <<"-">> \o f : f \in FieldNames }

\* Sequences over S of length 0..n.
SeqUpTo(S, n) == UNION { [1..k -> S] : k \in 0..n }

\* args.get("orderBy", None): absent, a string, or a list of strings.
OrderNone == [kind |-> "none", val |-> <<>>]

OrderStr(s) == [kind |-> "str", val |-> s]

OrderList(l) == [kind |-> "list", val |-> l]

OrderInputs ==
    {OrderNone}
        \cup { OrderStr(s) : s \in OrderEntries \cup {<<>>} }
        \cup { OrderList(l) : l \in SeqUpTo(OrderEntries, MaxOrderLen) }

\* The names x for which the queryset class defines a method annotate_x.
MethodSets ==
    { {},
      { <<"n", "a", "m", "e">>, <<"c", "r", "e", "a", "t", "e", "d", "_", "a", "t">> },
      { <<"u", "s", "e", "r", "_", "i", "d">>, <<"n">> } }

\* args.get(settings.FILTER_KEY): absent, or a tree field -> lookup -> value.
FilterInputs ==
    { None,
      Some([priority |-> [gte |-> "1"]]),
      Some([priority |-> [gte |-> "abc"], name |-> [contains |-> "x"]]) }

FiltersetClasses == {"TaskGroupFilter", "UserFilter"}

\* One call of resolve_queryset: iterable is the queryset handed in (its
\* class defines the annotate_ methods named in methods), orderBy and filter
\* are the entries of args, request is info.context.
Calls ==
    [iterable : {"objects"}, methods : MethodSets, orderBy : OrderInputs,
     filter : FilterInputs, filterset_class : FiltersetClasses, request : {"request"}]

\* ------------------------------------------------------------------------
\* Querysets: the source and the operations applied to it, in order.
\* ------------------------------------------------------------------------

\* super(DjangoFilterConnectionField, cls).resolve_queryset(connection,
\* iterable, info, args): the queryset the call starts from.
BaseQueryset(c) == [source |-> c.iterable, methods |-> c.methods, ops |-> <<>>]

\* A queryset method returns a new queryset of the same class.
ApplyOp(qs, op, arg) == [qs EXCEPT !.ops = Append(@, [op |-> op, arg |-> arg])]

Step(name, arg) == [step |-> name, arg |-> arg]

\* ------------------------------------------------------------------------
\* resolve_queryset, lines 115-132: ordering.
\* ------------------------------------------------------------------------

\* `if order:` a non-empty string or a non-empty list.
OrderTruthy(order) == order.kind # "none" /\ Len(order.val) > 0

\* The elements that `for order_arg in snake_order` visits and that
\* `*snake_order` unpacks.  For a list they are the snake-cased entries; for a
\* string snake_order is one string, and iterating it yields its characters.
SnakeOrderElements(order) ==
    IF order.kind = "str"
    THEN LET s == to_snake_case(order.val) IN [i \in 1..Len(s) |-> <<s[i]>>]
    ELSE [i \in 1..Len(order.val) |-> to_snake_case(order.val[i])]

\* order_arg.lstrip("-"): the x of annotate_x.
AnnotationArg(order_arg) == lstrip(order_arg, "-")

\* The loop of lines 123-128 from element i on; st is [qs, log].
RECURSIVE AnnotateFrom(_, _, _)
AnnotateFrom(st, elems, i) ==
    IF i > Len(elems) THEN st
    ELSE LET x == AnnotationArg(elems[i])
         IN  IF x \in st.qs.methods
             THEN AnnotateFrom(
                      [qs |-> ApplyOp(st.qs, "annotate", x),
                       log |-> Append(st.log, Step("annotate", x))],
                      elems, i + 1)
             ELSE AnnotateFrom(st, elems, i + 1)

\* OrderByDistinct with the two calls swapped.
OrderByDistinct_Swapped(st, elems) ==
    [qs |-> ApplyOp(ApplyOp(st.qs, "distinct", <<>>), "order_by", elems),
     log |-> st.log \o <<Step("distinct", <<>>), Step("order_by", elems)>>]

\* qs.order_by(*snake_order).distinct()
OrderByDistinct(st, elems) ==
    [qs |-> ApplyOp(ApplyOp(st.qs, "order_by", elems), "distinct", <<>>),
     log |-> st.log \o <<Step("order_by", elems), Step("distinct", <<>>)>>]

\* Lines 115-132.
OrderStage(st, order) ==
    IF OrderTruthy(order)
    THEN LET elems == SnakeOrderElements(order)
         IN  OrderByDistinct(AnnotateFrom(st, elems, 1), elems)
    ELSE st

\* ------------------------------------------------------------------------
\* resolve_queryset, lines 134-142: the filterset and its form.
\* ------------------------------------------------------------------------

\* args.get(settings.FILTER_KEY, {})
FilterArg(c) == IF c.filter = None THEN <<>> ELSE The(c.filter)

\* tree_input_type_to_data: the tree flattened into one lookup dictionary
\* whose keys are the paths <<field, lookup>>.
tree_input_type_to_data(filterset_class, tree) ==
    LET paths == { <<f, l>> : f \in DOMAIN tree, l \in UNION { DOMAIN tree[g] : g \in DOMAIN tree } }
        keys == { p \in paths : p[2] \in DOMAIN tree[p[1]] }
    IN  [p \in keys |-> tree[p[1]][p[2]]]

\* filterset.form.errors: the keys of data whose value the form rejects.
FormErrors(data) == { p \in DOMAIN data : data[p] = "abc" }

\* filterset.form.is_valid()
FormIsValid(data) == FormErrors(data) = {}

\* filterset.qs of a valid filterset: the queryset filtered by data.
FiltersetQs(filterset) == ApplyOp(filterset.queryset, "filter", filterset.data)

\* Finish without the raise: an invalid form yields the unfiltered queryset.
Finish_ReturnsUnfiltered(filterset, log) ==
    [kind |-> "return",
     value |-> Some(IF FormIsValid(filterset.data)
                    THEN FiltersetQs(filterset)
                    ELSE filterset.queryset),
     error |-> None,
     filterset |-> filterset,
     log |-> log \o <<Step("is_valid", <<>>), Step("qs", <<>>)>>]

\* Lines 140-142: return filterset.qs, or raise ValidationError(as_json).
Finish(filterset, log) ==
    IF FormIsValid(filterset.data)
    THEN [kind |-> "return", value |-> Some(FiltersetQs(filterset)), error |-> None,
          filterset |-> filterset,
          log |-> log \o <<Step("is_valid", <<>>), Step("qs", <<>>)>>]
    ELSE [kind |-> "raise", value |-> None,
          error |-> Some([type |-> "ValidationError",
                          message |-> [json |-> FormErrors(filterset.data)]]),
          filterset |-> filterset,
          log |-> log \o <<Step("is_valid", <<>>), Step("as_json", <<>>)>>]

\* resolve_queryset(cls, connection, iterable, info, args, filtering_args,
\* filterset_class), lines 100-142.
resolve_queryset(c) ==
    LET base == [qs |-> BaseQueryset(c), log |-> <<Step("super", <<>>)>>]
        st == OrderStage(base, c.orderBy)
        filterset == [cls |-> c.filterset_class,
                      data |-> tree_input_type_to_data(c.filterset_class, FilterArg(c)),
                      queryset |-> st.qs,
                      request |-> c.request]
    IN  Finish(filterset, Append(st.log, Step("filterset", <<>>)))

\* ------------------------------------------------------------------------
\* Filterset classes and node types (tests/object_types.py).
\* ------------------------------------------------------------------------

\* A filterset class: its __name__, and whether it subclasses AdvancedFilterSet.
UserFilter == [name |-> <<"U", "s", "e", "r", "F", "i", "l", "t", "e", "r">>, advanced |-> TRUE]

TaskFilter == [name |-> <<"T", "a", "s", "k", "F", "i", "l", "t", "e", "r">>, advanced |-> TRUE]

\* A django_filters.FilterSet subclass that is no AdvancedFilterSet.
PlainFilter == [name |-> <<"P", "l", "a", "i", "n", "F", "i", "l", "t", "e", "r">>, advanced |-> FALSE]

\* A DjangoObjectType: its __name__ and the model, filterset_class and
\* filter_fields of its _meta.
UserFilterFieldsType ==
    [name |-> <<"U", "s", "e", "r", "F", "i", "l", "t", "e", "r", "F", "i", "e", "l", "d", "s", "T", "y", "p", "e">>,
     model |-> "User",
     filterset_class |-> None,
     filter_fields |-> Some([first_name |-> <<"exact", "startswith">>,
                             last_name |-> <<"exact", "contains">>,
                             email |-> <<"exact">>,
                             is_active |-> <<"exact">>,
                             birthday |-> <<"exact">>])]

UserFilterSetClassType ==
    [name |-> <<"U", "s", "e", "r", "F", "i", "l", "t", "e", "r", "S", "e", "t", "C", "l", "a", "s", "s", "T", "y", "p", "e">>,
     model |-> "User",
     filterset_class |-> Some(UserFilter),
     filter_fields |-> None]

TaskFilterSetClassType ==
    [name |-> <<"T", "a", "s", "k", "F", "i", "l", "t", "e", "r", "S", "e", "t", "C", "l", "a", "s", "s", "T", "y", "p", "e">>,
     model |-> "Task",
     filterset_class |-> Some(TaskFilter),
     filter_fields |-> None]

\* A node type whose Meta names a filterset class that is no AdvancedFilterSet,
\* and whose name holds 'Type' twice.
TaskTypeGroupType ==
    [name |-> <<"T", "a", "s", "k", "T", "y", "p", "e", "G", "r", "o", "u", "p", "T", "y", "p", "e">>,
     model |-> "TaskGroup",
     filterset_class |-> Some(PlainFilter),
     filter_fields |-> None]

NodeTypes ==
    {UserFilterFieldsType, UserFilterSetClassType, TaskFilterSetClassType, TaskTypeGroupType}

\* ------------------------------------------------------------------------
\* Inputs of the constructor.
\* ------------------------------------------------------------------------

\* fields: None, an empty dict, a dict.
FieldsInputs == { None, Some(<<>>), Some([email |-> <<"exact">>]) }

\* extra_filter_meta: None, or a dict of Meta entries.
ExtraMetaInputs ==
    { None,
      Some([fields |-> Some([name |-> <<"exact">>])]),
      Some([exclude |-> Some([name |-> <<"exact">>])]) }

\* filterset_class: None or a class.
FiltersetClassInputs == { None, Some(UserFilter), Some(PlainFilter) }

\* filter_input_type_prefix: None, the empty string, a string.
PrefixInputs == { None, Some(<<>>), Some(<<"C", "u", "s", "t", "o", "m">>) }

ConstructorInputs ==
    [type : NodeTypes, fields : FieldsInputs, extra_filter_meta : ExtraMetaInputs,
     filterset_class : FiltersetClassInputs, filter_input_type_prefix : PrefixInputs]

\* ------------------------------------------------------------------------
\* The constructor, lines 27-61.
\* ------------------------------------------------------------------------

\* DjangoFilterConnectionField.__init__ (super().__init__, lines 38-46) with
\* line 50: the attributes of the new field.
NewField(a) ==
    [node_type |-> a.type,
     _fields |-> a.fields,
     _extra_filter_meta |-> a.extra_filter_meta,
     _provided_filterset_class |-> a.filterset_class,
     _filter_input_type_prefix |-> a.filter_input_type_prefix,
     _filterset_class |-> None,
     _filtering_args |-> None]

\* provided_filterset_class that forgets the node type's Meta.
provided_filterset_class_ArgumentOnly(f) == f._provided_filterset_class

\* The property provided_filterset_class, lines 63-66.
provided_filterset_class(f) ==
    IF f._provided_filterset_class # None
    THEN f._provided_filterset_class
    ELSE f.node_type.filterset_class

\* The assertion of lines 47-49.
AssertionHolds(f) ==
    provided_filterset_class(f) = None \/ The(provided_filterset_class(f)).advanced

\* WarnsOfArgument testing the prefix for truth instead of for None.
WarnsOfArgument_Falsy(f) ==
    /\ \/ f._filter_input_type_prefix = None
       \/ Len(The(f._filter_input_type_prefix)) = 0
    /\ f._provided_filterset_class # None

\* Line 51: the condition of the first warning.
WarnsOfArgument(f) ==
    f._filter_input_type_prefix = None /\ f._provided_filterset_class # None

\* Line 56: the condition of the second warning.
WarnsOfMeta(f) ==
    f._filter_input_type_prefix = None /\ f.node_type.filterset_class # None

\* Lines 51-61: the warnings of a construction, in the order they are emitted.
ConstructorWarnings(f) ==
    (IF WarnsOfArgument(f) THEN <<"filterset_class argument">> ELSE <<>>)
        \o (IF WarnsOfMeta(f) THEN <<"filterset_class of Meta">> ELSE <<>>)

\* ------------------------------------------------------------------------
\* The properties, lines 68-98.
\* ------------------------------------------------------------------------

\* `if self._filter_input_type_prefix:` a string that is not empty.
PrefixTruthy(f) ==
    f._filter_input_type_prefix # None /\ Len(The(f._filter_input_type_prefix)) > 0

\* The property filter_input_type_prefix, lines 68-77.
filter_input_type_prefix(f) ==
    IF PrefixTruthy(f)
    THEN The(f._filter_input_type_prefix)
    ELSE LET node_type_name == RemoveAll(f.node_type.name, <<"T", "y", "p", "e">>, 1)
         IN  IF provided_filterset_class(f) # None
             THEN node_type_name \o The(provided_filterset_class(f)).name
             ELSE node_type_name

\* A Python dict given as an Optional is truthy when it is a non-empty dict.
DictTruthy(o) == o # None /\ DOMAIN The(o) # {}

\* dict.update
DictUpdate(d, e) ==
    [k \in DOMAIN d \cup DOMAIN e |-> IF k \in DOMAIN e THEN e[k] ELSE d[k]]

\* Lines 83-86: the Meta entries handed to get_filterset_class.
FiltersetMeta(f) ==
    LET fields == IF DictTruthy(f._fields) THEN f._fields ELSE f.node_type.filter_fields
        meta == [model |-> Some(f.node_type.model), fields |-> fields]
    IN  IF DictTruthy(f._extra_filter_meta)
        THEN DictUpdate(meta, The(f._extra_filter_meta))
        ELSE meta

\* get_filterset_class(filterset_class, **meta): a new filterset class made
\* from the provided class and the Meta entries; id tells one class object
\* from another made of the same arguments.
get_filterset_class(provided, meta, id) ==
    [base |-> provided, meta |-> meta, id |-> id]

\* FilterArgumentsFactory(filterset_class, prefix).arguments: the arguments
\* the field contributes to the schema.
FilterArguments(filterset_class, prefix, id) ==
    [filter |-> [filterset_class |-> filterset_class, prefix |-> prefix, id |-> id]]

\* MustBuildFiltersetClass without the test of the cache.
MustBuildFiltersetClass_Always(f) == TRUE

\* `if not self._filterset_class:` line 82.
MustBuildFiltersetClass(f) == f._filterset_class = None

\* `if not self._filtering_args:` line 93.
MustBuildFilteringArgs(f) == ~DictTruthy(f._filtering_args)

\* The property filterset_class, lines 79-88: the field and the build
\* counters b after the access; the value returned is _filterset_class.
AccessFiltersetClass(f, b) ==
    IF MustBuildFiltersetClass(f)
    THEN [field |-> [f EXCEPT !._filterset_class =
                        Some(get_filterset_class(provided_filterset_class(f),
                                                 FiltersetMeta(f),
                                                 b.filterset_class + 1))],
          builds |-> [b EXCEPT !.filterset_class = @ + 1]]
    ELSE [field |-> f, builds |-> b]

\* The property filtering_args, lines 90-98.
AccessFilteringArgs(f, b) ==
    IF MustBuildFilteringArgs(f)
    THEN LET a == AccessFiltersetClass(f, b)
         IN  [field |-> [a.field EXCEPT !._filtering_args =
                            Some(FilterArguments(The(a.field._filterset_class),
                                                 filter_input_type_prefix(a.field),
                                                 a.builds.filtering_args + 1))],
              builds |-> [a.builds EXCEPT !.filtering_args = @ + 1]]
    ELSE [field |-> f, builds |-> b]

\* FieldAfterResolve of a resolve_queryset that keeps its filterset class on
\* the field.
FieldAfterResolve_Stores(f, c) ==
    [f EXCEPT !._filterset_class =
        Some(get_filterset_class(None, [model |-> Some(c.filterset_class)], 0))]

\* resolve_queryset is a classmethod: it is handed no field and assigns no
\* attribute of one (lines 100-142).
FieldAfterResolve(f, c) == f

\* ------------------------------------------------------------------------
\* The state machine.
\* ------------------------------------------------------------------------

Init ==
    /\ field = None
    /\ ctor = None
    /\ warnings = <<>>
    /\ ret = [prefix |-> None, filterset_class |-> None, filtering_args |-> None]
    /\ builds = [filterset_class |-> 0, filtering_args |-> 0]
    /\ call = None
    /\ outcome = None
    /\ history = {}

\* AdvancedDjangoFilterConnectionField(type, fields, order_by,
\* extra_filter_meta, filterset_class, filter_input_type_prefix)
Construct(a) ==
    /\ ctor = None
    /\ LET f == NewField(a)
       IN  IF AssertionHolds(f)
           THEN /\ field' = Some(f)
                /\ ctor' = Some([args |-> a, result |-> "ok"])
                /\ warnings' = ConstructorWarnings(f)
           ELSE /\ field' = None
                /\ ctor' = Some([args |-> a, result |-> "AssertionError"])
                /\ warnings' = <<>>
    /\ UNCHANGED <<ret, builds, call, outcome, history>>

\* A read of field.filter_input_type_prefix.
GetFilterInputTypePrefix ==
    /\ field # None
    /\ ret' = [ret EXCEPT !.prefix = Some(filter_input_type_prefix(The(field)))]
    /\ UNCHANGED <<field, ctor, warnings, builds, call, outcome, history>>

\* A read of field.filterset_class.
GetFiltersetClass ==
    /\ field # None
    /\ builds.filterset_class < MaxBuilds
    /\ LET r == AccessFiltersetClass(The(field), builds)
       IN  /\ field' = Some(r.field)
           /\ builds' = r.builds
           /\ ret' = [ret EXCEPT !.filterset_class = r.field._filterset_class]
    /\ UNCHANGED <<ctor, warnings, call, outcome, history>>

\* A read of field.filtering_args.
GetFilteringArgs ==
    /\ field # None
    /\ builds.filterset_class < MaxBuilds
    /\ builds.filtering_args < MaxBuilds
    /\ LET r == AccessFilteringArgs(The(field), builds)
       IN  /\ field' = Some(r.field)
           /\ builds' = r.builds
           /\ ret' = [ret EXCEPT !.filtering_args = r.field._filtering_args]
    /\ UNCHANGED <<ctor, warnings, call, outcome, history>>

\* One call of the classmethod resolve_queryset with the arguments c.
Resolve(c) ==
    /\ call' = Some(c)
    /\ outcome' = Some(resolve_queryset(c))
    /\ history' = history \cup {<<c, resolve_queryset(c)>>}
    /\ field' = IF field = None THEN None ELSE Some(FieldAfterResolve(The(field), c))
    /\ UNCHANGED <<ctor, warnings, ret, builds>>

\* The calls made while a field lives: one that orders and returns, one
\* that does not order and raises.
FieldCalls ==
    { [iterable |-> "objects",
       methods |-> { <<"n", "a", "m", "e">>, <<"c", "r", "e", "a", "t", "e", "d", "_", "a", "t">> },
       orderBy |-> OrderList(<< <<"-", "c", "r", "e", "a", "t", "e", "d", "A", "t">> >>),
       filter |-> f,
       filterset_class |-> "UserFilter",
       request |-> "request"] : f \in {None} }
    \cup
    { [iterable |-> "objects",
       methods |-> { <<"n", "a", "m", "e">>, <<"c", "r", "e", "a", "t", "e", "d", "_", "a", "t">> },
       orderBy |-> OrderNone,
       filter |-> f,
       filterset_class |-> "UserFilter",
       request |-> "request"]
      : f \in {Some([priority |-> [gte |-> "abc"], name |-> [contains |-> "x"]])} }

Next ==
    \/ \E a \in ConstructorInputs : Construct(a)
    \/ GetFilterInputTypePrefix
    \/ GetFiltersetClass
    \/ GetFilteringArgs
    \/ \E c \in FieldCalls : Resolve(c)

\* The life of one connection field: construction, reads of its properties
\* and query resolutions, in any order.
Spec == Init /\ [][Next]_vars

\* A pending call of resolve_queryset, drawn from all the inputs.
InitResolve ==
    /\ field = None
    /\ ctor = None
    /\ warnings = <<>>
    /\ ret = [prefix |-> None, filterset_class |-> None, filtering_args |-> None]
    /\ builds = [filterset_class |-> 0, filtering_args |-> 0]
    /\ call \in { Some(c) : c \in Calls }
    /\ outcome = None
    /\ history = {}

RunResolve ==
    /\ call # None
    /\ outcome = None
    /\ Resolve(The(call))

NextResolve == RunResolve

\* resolve_queryset applied to every input.
SpecResolve == InitResolve /\ [][NextResolve]_vars

\* ------------------------------------------------------------------------
\* Definitions the properties are stated with.
\* ------------------------------------------------------------------------

\* A call has been made and has ended.
Resolved == call # None /\ outcome # None

StepsNamed(log, name) == { i \in 1..Len(log) : log[i].step = name }

OpsNamed(qs, op) == { i \in 1..Len(qs.ops) : qs.ops[i].op = op }

\* The arguments of the annotate_ methods applied to qs, in order.
AnnotateArgs(qs) ==
    LET IsAnnotate(o) == o.op = "annotate"
        applied == SelectSeq(qs.ops, IsAnnotate)
    IN  [i \in 1..Len(applied) |-> applied[i].arg]

\* An entry without its one leading "-".
StripOne(e) == IF Len(e) > 0 /\ e[1] = "-" THEN Tail(e) ELSE e

\* The stripped entries for which the queryset has an annotate_ method.
ExpectedAnnotations(elems, methods) ==
    LET stripped == [i \in 1..Len(elems) |-> StripOne(elems[i])]
        HasMethod(x) == x \in methods
    IN  SelectSeq(stripped, HasMethod)

\* What graphene's to_snake_case returns for each orderBy entry.
SnakeOf(e) ==
    CASE e = <<"n", "a", "m", "e">> -> <<"n", "a", "m", "e">>
      [] e = <<"c", "r", "e", "a", "t", "e", "d", "A", "t">> -> <<"c", "r", "e", "a", "t", "e", "d", "_", "a", "t">>
      [] e = <<"u", "s", "e", "r", "I", "D">> -> <<"u", "s", "e", "r", "_", "i", "d">>
      [] e = <<"N", "a", "m", "e">> -> <<"n", "a", "m", "e">>
      [] e = <<"-", "n", "a", "m", "e">> -> <<"-", "n", "a", "m", "e">>
      [] e = <<"-", "c", "r", "e", "a", "t", "e", "d", "A", "t">> -> <<"-", "c", "r", "e", "a", "t", "e", "d", "_", "a", "t">>
      [] e = <<"-", "u", "s", "e", "r", "I", "D">> -> <<"-", "u", "s", "e", "r", "_", "i", "d">>
      [] e = <<"-", "N", "a", "m", "e">> -> <<"-", "_", "n", "a", "m", "e">>

\* Each node type's __name__ with 'Type' removed.
NameWithoutType(n) ==
    CASE n = <<"U", "s", "e", "r", "F", "i", "l", "t", "e", "r", "F", "i", "e", "l", "d", "s", "T", "y", "p", "e">> -> <<"U", "s", "e", "r", "F", "i", "l", "t", "e", "r", "F", "i", "e", "l", "d", "s">>
      [] n = <<"U", "s", "e", "r", "F", "i", "l", "t", "e", "r", "S", "e", "t", "C", "l", "a", "s", "s", "T", "y", "p", "e">> -> <<"U", "s", "e", "r", "F", "i", "l", "t", "e", "r", "S", "e", "t", "C", "l", "a", "s", "s">>
      [] n = <<"T", "a", "s", "k", "F", "i", "l", "t", "e", "r", "S", "e", "t", "C", "l", "a", "s", "s", "T", "y", "p", "e">> -> <<"T", "a", "s", "k", "F", "i", "l", "t", "e", "r", "S", "e", "t", "C", "l", "a", "s", "s">>
      [] n = <<"T", "a", "s", "k", "T", "y", "p", "e", "G", "r", "o", "u", "p", "T", "y", "p", "e">> -> <<"T", "a", "s", "k", "G", "r", "o", "u", "p">>

\* The filterset class a constructor call provides: the argument when given,
\* otherwise the one of the node type's Meta.
ProvidedBy(a) ==
    IF a.filterset_class # None THEN a.filterset_class ELSE a.type.filterset_class

\* ------------------------------------------------------------------------
\* Properties of resolve_queryset (checked under SpecResolve).
\* ------------------------------------------------------------------------

\* C1: resolve_queryset has exactly two outcomes.  It builds one filterset and
\* validates it once; when the form is valid it returns filterset.qs, the
\* ordered queryset filtered by the whole of the data; when the form is
\* invalid it returns nothing and raises one ValidationError whose message is
\* the JSON encoding of the form's errors.
C1_TwoOutcomes ==
    Resolved =>
        LET o == The(outcome)
            data == o.filterset.data
            rejected == { p \in DOMAIN data : data[p] = "abc" }
        IN  /\ o.kind \in {"return", "raise"}
            /\ Cardinality(StepsNamed(o.log, "filterset")) = 1
            /\ Cardinality(StepsNamed(o.log, "is_valid")) = 1
            /\ rejected = {} =>
                   /\ o.kind = "return"
                   /\ o.error = None
                   /\ o.value # None
                   /\ The(o.value).ops =
                          Append(o.filterset.queryset.ops, [op |-> "filter", arg |-> data])
            /\ rejected # {} =>
                   /\ o.kind = "raise"
                   /\ o.value = None
                   /\ o.error = Some([type |-> "ValidationError",
                                      message |-> [json |-> rejected]])

\* An invalid form met after an ordering by two entries.
C1_Witness ==
    /\ Resolved
    /\ The(outcome).kind = "raise"
    /\ The(call).orderBy.kind = "list"
    /\ Len(The(call).orderBy.val) = 2

\* C2: orderBy given as one string f orders as orderBy given as the list [f]
\* does: order_by is called once with the one snake-cased name, and the
\* filterset receives the same queryset.
C2_StringAsOneElementList ==
    (Resolved /\ The(call).orderBy.kind = "str" /\ Len(The(call).orderBy.val) > 0) =>
        LET c == The(call)
            qs == The(outcome).filterset.queryset
            idx == OpsNamed(qs, "order_by")
            asList == [c EXCEPT !.orderBy = OrderList(<<c.orderBy.val>>)]
        IN  /\ Cardinality(idx) = 1
            /\ qs.ops[CHOOSE i \in idx : TRUE].arg = <<SnakeOf(c.orderBy.val)>>
            /\ qs = resolve_queryset(asList).filterset.queryset

\* C3: for a non-empty orderBy list of field names, each optionally prefixed
\* with "-", order_by is called once with the snake-cased names in the order
\* given, each "-" kept in front of its name; the annotate_ methods looked up
\* are those of the snake-cased names without the "-".
C3_ListOrdering ==
    (Resolved /\ The(call).orderBy.kind = "list" /\ Len(The(call).orderBy.val) > 0) =>
        LET c == The(call)
            l == c.orderBy.val
            qs == The(outcome).filterset.queryset
            idx == OpsNamed(qs, "order_by")
            name == [i \in 1..Len(l) |-> SnakeOf(StripOne(l[i]))]
            HasMethod(x) == x \in c.methods
        IN  /\ Cardinality(idx) = 1
            /\ LET arg == qs.ops[CHOOSE i \in idx : TRUE].arg
               IN  /\ Len(arg) = Len(l)
                   /\ \A i \in 1..Len(l) :
                          arg[i] = IF l[i][1] = "-" THEN <<"-">> \o name[i] ELSE name[i]
            /\ AnnotateArgs(qs) = SelectSeq(name, HasMethod)

\* C6: the steps of one call run in a fixed order.  With a non-empty orderBy:
\* the base queryset, the annotate_ methods in the order of the entries, then
\* order_by, then distinct, then the filterset on the queryset this yields,
\* then its validation.  With no orderBy or an empty one: the base queryset,
\* the filterset on it, the validation, and nothing else.
C6_StepOrder ==
    Resolved =>
        LET c == The(call)
            o == The(outcome)
            log == o.log
            qs == o.filterset.queryset
        IN  /\ log[1].step = "super"
            /\ IF c.orderBy.kind # "none" /\ c.orderBy.val # <<>>
               THEN \E k \in 2..Len(log) :
                       /\ \A i \in 2..(k - 1) : log[i].step = "annotate"
                       /\ Len(log) = k + 4
                       /\ log[k].step = "order_by"
                       /\ log[k + 1].step = "distinct"
                       /\ log[k + 2].step = "filterset"
                       /\ log[k + 3].step = "is_valid"
                       /\ [i \in 1..(k - 2) |-> log[i + 1].arg]
                              = ExpectedAnnotations(log[k].arg, c.methods)
                       /\ [i \in 1..Len(qs.ops) |-> qs.ops[i].op]
                              = [i \in 1..k |-> log[i + 1].step]
                       /\ qs.source = c.iterable
               ELSE /\ Len(log) = 4
                    /\ log[2].step = "filterset"
                    /\ log[3].step = "is_valid"
                    /\ qs.ops = <<>>
                    /\ qs.source = c.iterable

\* Two entries whose annotate_ methods both exist: two annotations, then
\* order_by and distinct.
C6_Witness ==
    /\ Resolved
    /\ The(call).orderBy.kind = "list"
    /\ Len(AnnotateArgs(The(outcome).filterset.queryset)) = 2
    /\ Len(The(outcome).filterset.queryset.ops) = 4

\* ------------------------------------------------------------------------
\* Properties of the field (checked under Spec).
\* ------------------------------------------------------------------------

\* C4 as stated: once a resolution has run, nothing writes the field's state.
C4_NoFieldStateWritten ==
    [][(field # None /\ history # {}) => field' = field]_vars

\* C4 as amended: equal calls of resolve_queryset have equal outcomes, a call
\* leaves the field as it was, and the only attributes of a field written
\* after its construction are the caches _filterset_class and
\* _filtering_args, each written when it is still unset.
C4_ResolveLeavesFieldAlone ==
    /\ [](\A p, q \in history : p[1] = q[1] => p[2] = q[2])
    /\ [][(history' # history \/ call' # call) => field' = field]_vars
    /\ [][(field # None /\ field' # field) =>
            /\ field' # None
            /\ LET f == The(field)
                   g == The(field')
               IN  /\ [g EXCEPT !._filterset_class = f._filterset_class,
                                !._filtering_args = f._filtering_args] = f
                   /\ g._filterset_class # f._filterset_class => f._filterset_class = None
                   /\ g._filtering_args # f._filtering_args => f._filtering_args = None]_vars

\* Both kinds of call have run on a field whose caches are filled.
C4_Witness ==
    /\ field # None
    /\ Cardinality(history) = 2
    /\ The(field)._filterset_class # None
    /\ The(field)._filtering_args # None

\* C5: a construction succeeds exactly when the provided filterset class is
\* absent or an AdvancedFilterSet subclass, and fails with an AssertionError
\* otherwise; the provided class of a constructed field is the one the call
\* provides.
C5_OnlyAdvancedFilterSets ==
    ctor # None =>
        LET a == The(ctor).args
            allowed == ProvidedBy(a) = None \/ The(ProvidedBy(a)).advanced
        IN  /\ The(ctor).result \in {"ok", "AssertionError"}
            /\ (The(ctor).result = "ok") <=> allowed
            /\ (field # None) <=> allowed
            /\ field # None => provided_filterset_class(The(field)) = ProvidedBy(a)

\* A construction refused because of the class of the node type's Meta.
C5_Witness ==
    /\ ctor # None
    /\ The(ctor).result = "AssertionError"
    /\ The(ctor).args.filterset_class = None

\* C7: filter_input_type_prefix returns the constructor's prefix when one was
\* given; otherwise the node type's name without 'Type', followed by the
\* provided filterset class's name when there is one.
C7_Prefix ==
    (field # None /\ ret.prefix # None) =>
        LET a == The(ctor).args
            given == a.filter_input_type_prefix # None
            node_type_name == NameWithoutType(a.type.name)
        IN  The(ret.prefix) =
                IF given THEN The(a.filter_input_type_prefix)
                ELSE IF ProvidedBy(a) # None
                     THEN node_type_name \o The(ProvidedBy(a)).name
                     ELSE node_type_name

\* C8: filterset_class and filtering_args are built at most once per field.
\* The filterset class comes from get_filterset_class with the provided class
\* and Meta entries model and fields (the constructor's fields, else the node
\* type's filter_fields), overridden by extra_filter_meta; every read returns
\* the cached value, and a filled cache never changes.
C8_BuiltOnce ==
    /\ [](builds.filterset_class <= 1 /\ builds.filtering_args <= 1)
    /\ [](field # None =>
            LET f == The(field)
                a == The(ctor).args
                fields == IF a.fields # None /\ The(a.fields) # <<>>
                          THEN a.fields ELSE a.type.filter_fields
                own == [model |-> Some(a.type.model), fields |-> fields]
                extra == IF a.extra_filter_meta = None THEN <<>> ELSE The(a.extra_filter_meta)
                meta == [k \in {"model", "fields"} \cup DOMAIN extra |->
                            IF k \in DOMAIN extra THEN extra[k] ELSE own[k]]
            IN  /\ f._filterset_class # None =>
                       /\ builds.filterset_class = 1
                       /\ The(f._filterset_class).base = ProvidedBy(a)
                       /\ The(f._filterset_class).meta = meta
                /\ f._filtering_args # None =>
                       /\ builds.filtering_args = 1
                       /\ f._filterset_class # None
                /\ ret.filterset_class # None => ret.filterset_class = f._filterset_class
                /\ ret.filtering_args # None => ret.filtering_args = f._filtering_args)
    /\ [][(field # None /\ The(field)._filterset_class # None) =>
            The(field')._filterset_class = The(field)._filterset_class]_vars
    /\ [][(field # None /\ The(field)._filtering_args # None) =>
            The(field')._filtering_args = The(field)._filtering_args]_vars

\* Both properties have been read, with resolutions in between.
C8_Witness ==
    /\ field # None
    /\ ret.filterset_class # None
    /\ ret.filtering_args # None
    /\ builds = [filterset_class |-> 1, filtering_args |-> 1]
    /\ history # {}
    /\ The(ctor).args.extra_filter_meta # None

\* C9: a successful construction warns exactly when no prefix was given and a
\* filterset class is present: once for the filterset_class argument and
\* once more for the filterset_class of the node type's Meta.
C9_Warnings ==
    (ctor # None /\ The(ctor).result = "ok") =>
        LET a == The(ctor).args
            noPrefix == a.filter_input_type_prefix = None
            byArgument == a.filterset_class # None
            byMeta == a.type.filterset_class # None
        IN  /\ warnings =
                   (IF noPrefix /\ byArgument THEN <<"filterset_class argument">> ELSE <<>>)
                       \o (IF noPrefix /\ byMeta THEN <<"filterset_class of Meta">> ELSE <<>>)
            /\ (Len(warnings) = 0) <=> (~noPrefix \/ (~byArgument /\ ~byMeta))
            /\ (Len(warnings) = 2) <=> (noPrefix /\ byArgument /\ byMeta)

\* Both warnings: no prefix, a class as argument and a class in the Meta.
C9_Witness ==
    /\ ctor # None
    /\ The(ctor).result = "ok"
    /\ Len(warnings) = 2

\* C10: for a constructed field with a provided filterset class, when the
\* constructor emitted no warning the property filter_input_type_prefix
\* returns the prefix that was passed to the constructor.
C10_NoWarningMeansPassedPrefix ==
    (/\ field # None
     /\ ProvidedBy(The(ctor).args) # None
     /\ warnings = <<>>
     /\ ret.prefix # None) =>
        ret.prefix = The(ctor).args.filter_input_type_prefix

====
